---- MODULE Spec2Model ----
(***************************************************************************)
(* State-machine model of agent/hierarchical_agent.py: one                 *)
(* HierarchicalAgent instance, its run() coroutine, the session handoff    *)
(* _keep_last_page, and what the caller of run() receives.  The planner,   *)
(* the step executor (BrowserUseAgent.run under asyncio.wait_for), the     *)
(* browser session and the Playwright runtime are external: each of their  *)
(* outcomes is a nondeterministic choice.  Two more state machines share   *)
(* the module: the benchmark driver of run_online_mw2.py (main, run_task)  *)
(* and OpenaiEngine.generate of Online-Mind2Web-replace/src/utils.py.      *)
(***************************************************************************)
EXTENDS Integers, Sequences, FiniteSets, TLC

\* ---- bounds of the model ------------------------------------------------
\* longest checklist the planner returns
MaxN == 3
\* longest step history one subtask returns
MaxSteps == 2
\* most tabs the executor leaves in the context
MaxTabs == 2
\* run() calls on the one instance
MaxRuns == 2
\* most handles in the context _keep_last_page is called on by itself
MaxHandles == 3
\* calls of _keep_last_page in a row
MaxHandoffs == 2
\* rows of level 'medium' in the dataset
MaxTasks == 3
\* main() invocations on one output directory
MaxMains == 2
\* chat.completions.create calls followed within one generate()
MaxCalls == 5
\* longest a cancelled executor goes on before it ends, in clock ticks
MaxLate == 2

\* ---- value domains --------------------------------------------------------
\* the description of the i-th entry of a plan
Name(i) == "step " \o ToString(i)
\* the k-th step record the executor of subtask i produces
Step(i, k) == [subtask |-> i, step |-> k]
ErrTexts == {"", "boom"}
NoneStr == "<None>"
NoPage == 0
NoExc == [type |-> "None", text |-> ""]

\* f"timed out after {self.subtask_timeout}s" with the default 60.0
subtask_timeout == "60.0"
TimedOutMsg == "timed out after " \o subtask_timeout \o "s"

\* the plans the planner returns: any number of entries up to MaxN
Checklists == {[i \in 1..n |-> Name(i)] : n \in 0..MaxN}
\* the step histories the executor of subtask i may return
SubHistories(i) == {[k \in 1..n |-> Step(i, k)] : n \in 0..MaxSteps}
\* what agent.run() returns: an AgentHistoryList (it has model_dump), a dict
\* with a "history" key, or a dict without one
Returns(i) ==
    [kind : {"AgentHistoryList", "dict"}, history : SubHistories(i)]
        \cup {[kind |-> "dict_no_history", history |-> <<>>]}
\* lists of up to n handles in creation order; a handle may already be closed
PageListsUpTo(n) == UNION {{[i \in 1..k |-> [id |-> i, closed |-> c[i]]] :
                               c \in [1..k -> BOOLEAN]} : k \in 0..n}
\* the tabs an executor leaves behind in run(): Playwright drops a closed page
\* from context.pages, so all of them are open; handles closed already are fed
\* to _keep_last_page where it is taken by itself
PageLists == {[i \in 1..k |-> [id |-> i, closed |-> FALSE]] : k \in 0..MaxTabs}

VARIABLES
    playwright,        \* self.playwright: 0 is None, else the runtime's id
    context,           \* self.context: 0 is None, else the runtime it lives in
    initial_actions,   \* truthiness of self.initial_actions
    live,              \* runtimes started and not yet stopped
    started,           \* number of runtimes ever started
    pc,                \* position of run()
    checklist, statuses, combined_history, page, idx,   \* locals of run()
    pages,             \* session.browser_context.pages
    exc,               \* the exception propagating out of run()
    result,            \* what the caller of run() holds afterwards
    agent,             \* parameters of the BrowserUseAgent built last
    invocations,       \* log: one record per executor call, in call order
    sub_histories,     \* log: the step history each completed subtask returned
    running,           \* indexes whose executor call is in flight
    closing,           \* the p.close() calls of the handoff just done
    late,              \* ticks wait_for has waited for the executor it cancelled
    ended,             \* how the latest executor call ended
    killCalls,         \* session.kill() calls of this run
    stopCalls,         \* playwright.stop() calls of this run
    handoffs,          \* _keep_last_page calls of this run
    failPoint,         \* where the failure of this run was injected
    failedIdx,         \* index of the subtask that failed, 0 if none
    runs,              \* run() calls so far
    \* run_online_mw2.py
    mpc,               \* position of main() and of the run_task it awaits
    hierarchical,      \* args.hierarchical
    start_id,          \* args.start_id
    cursor,            \* index in the dataset of the row the for loop is at
    dirs,              \* the task directories under the output directory
    ran,               \* log: rows run_task was called on by this main()
    mains,             \* main() invocations so far
    history,           \* local of run_task: what agent.run returned
    error,             \* local of run_task: str(e), bound by the handler only
    \* Online-Mind2Web-replace/src/utils.py
    epc,               \* position of generate() under its backoff decorator
    tries,             \* calls of generate() the decorator has made
    apiLog,            \* log: outcome of every chat.completions.create call
    delay              \* seconds of the latest sleep after a rate limit

vars == <<playwright, context, initial_actions, live, started, pc, checklist,
          statuses, combined_history, page, idx, pages, exc, result,
          agent, invocations, sub_histories, running, closing, late, ended,
          killCalls, stopCalls,
          handoffs, failPoint, failedIdx, runs,
          mpc, hierarchical, start_id, cursor, dirs, ran, mains, history,
          error, epc, tries, apiLog, delay>>

\* the variables of HierarchicalAgent and its run()
agentVars == <<playwright, context, initial_actions, live, started, pc,
               checklist, statuses, combined_history, page, idx, pages, exc,
               result, agent, invocations, sub_histories, running, closing,
               late, ended, killCalls, stopCalls, handoffs, failPoint,
               failedIdx, runs>>
\* the variables of main() and run_task
driverVars == <<mpc, hierarchical, start_id, cursor, dirs, ran, mains,
                history, error>>
\* the variables of OpenaiEngine.generate
engineVars == <<epc, tries, apiLog, delay>>
\* what no step of HierarchicalAgent touches
toolVars == <<driverVars, engineVars>>

selfVars == <<playwright, context, initial_actions, live, started>>
localVars == <<checklist, statuses, combined_history, page, idx>>
logVars == <<agent, invocations, sub_histories, running, closing, late, ended,
             handoffs>>

NoClosing == [attempted |-> {}, failed |-> {}]

NoResult == [returned |-> FALSE, history |-> <<>>, subtask_history |-> <<>>]

\* ---- SubtaskStatus ----------------------------------------------------------
SubtaskStatus(s) == [name |-> s, done |-> FALSE, error |-> NoneStr]

\* variant: every status is marked, not only the current one
mark_done_all(sts, i) == [j \in 1..Len(sts) |-> [sts[j] EXCEPT !.done = TRUE]]

\* variant: the mark is forgotten
mark_done_forgotten(sts, i) == sts

mark_done(sts, i) == [sts EXCEPT ![i].done = TRUE]

\* variant: the error lands on statuses[0] instead of statuses[idx - 1]
mark_error_first(sts, i, err) == [sts EXCEPT ![1].error = err]

mark_error(sts, i, err) == [sts EXCEPT ![i].error = err]

\* Python truthiness of st.error (None and "" are falsy)
Truthy(e) == e # NoneStr /\ e # ""

\* ---- pure pieces of run() ---------------------------------------------------
InitStatuses(cl) == [i \in 1..Len(cl) |-> SubtaskStatus(cl[i])]

ProgressLine(st, j, i) ==
    IF j < i
    THEN IF st.done THEN [mark |-> "done", step |-> j, name |-> st.name, error |-> NoneStr]
         ELSE IF Truthy(st.error)
              THEN [mark |-> "failed", step |-> j, name |-> st.name, error |-> st.error]
              ELSE [mark |-> "skip", step |-> j, name |-> st.name, error |-> NoneStr]
    ELSE [mark |-> "coming up next", step |-> j, name |-> st.name, error |-> NoneStr]

RenderProgress(sts, i) ==
    SelectSeq([j \in 1..Len(sts) |-> ProgressLine(sts[j], j, i)],
              LAMBDA l : l.mark # "skip")

\* the keyword arguments of BrowserUseAgent(**params), lines 137-186
\* variant: every executor gets the initial actions
Params_always_initial(cl, i, pg, sts, ia) ==
    [task |-> cl[i], page |-> pg,
     initial_actions |-> ia,
     progress |-> RenderProgress(sts, i)]

\* variant: the active page is not passed on
Params_no_page(cl, i, pg, sts, ia) ==
    [task |-> cl[i], page |-> NoPage,
     initial_actions |-> (i = 1 /\ ia),
     progress |-> RenderProgress(sts, i)]

Params(cl, i, pg, sts, ia) ==
    [task |-> cl[i], page |-> pg,
     initial_actions |-> (i = 1 /\ ia),
     progress |-> RenderProgress(sts, i)]

NoAgent == [task |-> "", page |-> NoPage, initial_actions |-> FALSE, progress |-> <<>>]

\* what the log keeps of one call: which entry, and the parameters but the page
Invocation(i, p) ==
    [idx |-> i, task |-> p.task, initial_actions |-> p.initial_actions,
     progress |-> p.progress]

\* variant: the new steps are put in front of the accumulated ones
Extend_prepend(hist, sub) == sub \o hist

Extend(hist, sub) == hist \o sub

\* model_dump() when the object has it, else the object itself
SubDump(r) ==
    IF r.kind = "AgentHistoryList"
    THEN [has_history |-> TRUE, history |-> r.history]
    ELSE [has_history |-> r.kind = "dict", history |-> r.history]

\* sub_dump.get("history", [])
GetHistory(d) == IF d.has_history THEN d.history ELSE <<>>

\* ---- _keep_last_page ----------------------------------------------------------
OpenPages(ps) == SelectSeq(ps, LAMBDA p : ~p.closed)

\* the handles p.close() is called on (pages[:-1]); any of them may raise
Closable(ps) ==
    LET open == OpenPages(ps) IN {open[k].id : k \in 1..(Len(open) - 1)}

\* variant: the first close that leaves its tab open ends the loop
KeepLastPage_stop_on_error(ps, failing) ==
    LET open == OpenPages(ps) IN
    IF open = <<>>
    THEN [last |-> NoPage, pages |-> ps]
    ELSE LET last == open[Len(open)] IN
         [last |-> last.id,
          pages |-> [k \in 1..Len(ps) |->
                        IF /\ ~ps[k].closed
                           /\ ps[k].id # last.id
                           /\ \A f \in failing : ps[k].id < f
                        THEN [ps[k] EXCEPT !.closed = TRUE]
                        ELSE ps[k]]]

\* variant: pages[0] is kept instead of pages[-1]
KeepLastPage_first(ps, failing) ==
    LET open == OpenPages(ps) IN
    IF open = <<>>
    THEN [last |-> NoPage, pages |-> ps]
    ELSE LET first == open[1] IN
         [last |-> first.id,
          pages |-> [k \in 1..Len(ps) |->
                        IF ~ps[k].closed /\ ps[k].id # first.id /\ ps[k].id \notin failing
                        THEN [ps[k] EXCEPT !.closed = TRUE]
                        ELSE ps[k]]]

KeepLastPage(ps, failing) ==
    LET open == OpenPages(ps) IN
    IF open = <<>>
    THEN [last |-> NoPage, pages |-> ps]
    ELSE LET last == open[Len(open)] IN
         [last |-> last.id,
          pages |-> [k \in 1..Len(ps) |->
                        IF ~ps[k].closed /\ ps[k].id # last.id /\ ps[k].id \notin failing
                        THEN [ps[k] EXCEPT !.closed = TRUE]
                        ELSE ps[k]]]

\* a HierarchicalAgent as __init__ leaves it (lines 63-71); nothing has run
Constructed ==
    /\ playwright = 0
    /\ context = 0
    /\ initial_actions \in BOOLEAN
    /\ live = {}
    /\ started = 0
    /\ checklist = <<>>
    /\ statuses = <<>>
    /\ combined_history = <<>>
    /\ page = NoPage
    /\ idx = 0
    /\ exc = NoExc
    /\ result = NoResult
    /\ agent = NoAgent
    /\ invocations = <<>>
    /\ sub_histories = <<>>
    /\ running = {}
    /\ closing = NoClosing
    /\ late = 0
    /\ ended = "none"
    /\ killCalls = 0
    /\ stopCalls = 0
    /\ handoffs = 0
    /\ failPoint = "none"
    /\ failedIdx = 0
    /\ runs = 0

\* the agent exists and run() has not been called
AgentIdle ==
    /\ Constructed
    /\ pc = "idle"
    /\ pages = <<>>

\* ---- run_online_mw2.py: values ------------------------------------------------
\* row['task_id'] of the i-th row of level 'medium', in dataset order
Tid(i) == "task " \o ToString(i)
rows == [i \in 1..MaxTasks |-> Tid(i)]
TaskIds == {rows[i] : i \in 1..Len(rows)}
\* --start_id: absent, the id of a row, or an id no row has
StartIds == {NoneStr} \cup TaskIds \cup {"task x"}

\* variant: --start_id is ignored
StartIndex_from_first(rs, sid) == 1

\* lines 209-215, as a 1-based index: the first row with that id, else the
\* first row
StartIndex(rs, sid) ==
    IF sid # NoneStr /\ \E i \in 1..Len(rs) : rs[i] = sid
    THEN CHOOSE i \in 1..Len(rs) :
             rs[i] = sid /\ \A j \in 1..(i - 1) : rs[j] # sid
    ELSE 1

\* result.json: missing, created and still empty, or written
NoFile == [kind |-> "none", action_history |-> 0,
           final_result_response |-> NoneStr, subtask_history |-> FALSE]
EmptyFile == [NoFile EXCEPT !.kind = "empty"]
\* a task directory: its entries and the content of its result.json
NoDir == [exists |-> FALSE, files |-> {}, result |-> NoFile]

\* task_dir.exists() and any(task_dir.iterdir()), line 224
NonEmpty(d) == d.exists /\ d.files # {}

Unbound == "<unbound>"
NoHistory == [kind |-> "unset", steps |-> 0]
None == [kind |-> "None", steps |-> 0]
\* what agent.run returns: the dict of HierarchicalAgent.run, or the
\* AgentHistoryList of browser_use's Agent.run, with some number of steps
AgentResults(hier) ==
    [kind : {IF hier THEN "dict" ELSE "AgentHistoryList"}, steps : 0..MaxSteps]

\* "if history:", line 171: None is falsy, the dict of HierarchicalAgent.run
\* has two keys and is truthy, an AgentHistoryList has the length of its
\* history
HistoryTruthy(h) ==
    CASE h.kind = "dict" -> TRUE
      [] h.kind = "AgentHistoryList" -> h.steps > 0
      [] OTHER -> FALSE

\* save_mind2web_trace, lines 46-109: one action_history text per step, the
\* subtask statuses copied through in hierarchical mode
TraceRecord(h, hier) ==
    [kind |-> "trace", action_history |-> h.steps,
     final_result_response |-> NoneStr,
     subtask_history |-> (hier /\ h.kind = "dict")]

\* the minimal record of lines 176-182
ErrorRecord(err) ==
    [kind |-> "error", action_history |-> 0,
     final_result_response |-> "Exception: " \o err,
     subtask_history |-> FALSE]

\* no main() has been started on the output directory
DriverIdle ==
    /\ mpc = "idle"
    /\ hierarchical = TRUE
    /\ start_id = NoneStr
    /\ cursor = 0
    /\ dirs = [t \in TaskIds |-> NoDir]
    /\ ran = <<>>
    /\ mains = 0
    /\ history = NoHistory
    /\ error = Unbound

\* ---- utils.py: values ---------------------------------------------------------
\* max_tries of backoff.on_exception, line 107
max_tries == 3
\* request_interval with the default rate_limit = -1, line 93
request_interval == 0
\* the fallback "60.0" of line 147
fallback_delay == 60
\* the Retry-After header of a RateLimitError: missing, seconds, or not a number
RetryAfters == {NoneStr, "2", "soon"}
\* what one chat.completions.create call does
ApiErrors == {"APIError", "APIConnectionError"}
RateLimits == [kind : {"RateLimitError"}, retry_after : RetryAfters]

\* float(hdr), lines 141-144: None when the header does not parse
ParseFloat(hdr) == IF hdr = "2" THEN 2 ELSE -1

Max(a, b) == IF a >= b THEN a ELSE b

\* lines 137-147
RetryDelay(e) ==
    IF e.retry_after # NoneStr /\ ParseFloat(e.retry_after) >= 0
    THEN ParseFloat(e.retry_after)
    ELSE Max(request_interval, fallback_delay)

\* generate() has not been called
EngineIdle ==
    /\ epc = "idle"
    /\ tries = 0
    /\ apiLog = <<>>
    /\ delay = 0

Init ==
    /\ AgentIdle
    /\ DriverIdle
    /\ EngineIdle

\* ---- run(): entry, lines 89-90 ----------------------------------------------
StartRun ==
    /\ pc \in {"idle", "returned", "raised"}
    /\ runs < MaxRuns
    /\ runs' = runs + 1
    /\ pc' = IF context = 0 THEN "init_browser" ELSE "plan"
    /\ checklist' = <<>>
    /\ statuses' = <<>>
    /\ combined_history' = <<>>
    /\ page' = NoPage
    /\ idx' = 0
    /\ exc' = NoExc
    /\ result' = NoResult
    /\ agent' = NoAgent
    /\ invocations' = <<>>
    /\ sub_histories' = <<>>
    /\ running' = {}
    /\ closing' = NoClosing
    /\ late' = 0
    /\ ended' = "none"
    /\ killCalls' = 0
    /\ stopCalls' = 0
    /\ handoffs' = 0
    /\ failPoint' = "none"
    /\ failedIdx' = 0
    /\ UNCHANGED <<selfVars, pages>>
    /\ UNCHANGED toolVars

\* the error leaves run(): nothing is returned to the caller
Leave(e, point) ==
    /\ pc' = "raised"
    /\ exc' = e
    /\ failPoint' = point
    /\ result' = NoResult

\* ---- _init_browser, lines 73-76 ---------------------------------------------
InitBrowser ==
    /\ pc = "init_browser"
    /\ \E outcome \in {"start_raises", "launch_raises", "ok"} :
          CASE outcome = "start_raises" ->
                  /\ Leave([type |-> "Exception", text |-> "start"], "init")
                  /\ UNCHANGED <<playwright, context, live, started, pages>>
            [] outcome = "launch_raises" ->
                  /\ started' = started + 1
                  /\ playwright' = started + 1
                  /\ live' = live \cup {started + 1}
                  /\ Leave([type |-> "Exception", text |-> "launch"], "init")
                  /\ UNCHANGED <<context, pages>>
            [] outcome = "ok" ->
                  /\ started' = started + 1
                  /\ playwright' = started + 1
                  /\ live' = live \cup {started + 1}
                  /\ context' = started + 1
                  /\ pages' = <<>>
                  /\ pc' = "plan"
                  /\ UNCHANGED <<exc, failPoint, result>>
    /\ UNCHANGED <<initial_actions, localVars, logVars, killCalls, stopCalls,
                   failedIdx, runs>>
    /\ UNCHANGED toolVars

\* ---- checklist = await self.planner.plan(task, website), line 93 --------------
\* plan() returns refined.steps as it is, the empty list included; it raises
\* when a chain fails or a step is not a string (planner.py, lines 100-107)
Plan ==
    /\ pc = "plan"
    /\ \/ \E cl \in Checklists :
             /\ checklist' = cl
             /\ pc' = "session_start"
             /\ UNCHANGED <<exc, failPoint, result>>
       \/ /\ Leave([type |-> "Exception", text |-> "plan"], "plan")
          /\ UNCHANGED checklist
    /\ UNCHANGED <<selfVars, statuses, combined_history, page, idx, pages,
                   logVars, killCalls, stopCalls, failedIdx, runs>>
    /\ UNCHANGED toolVars

\* ---- await session.start() and the locals of lines 125-127 -------------------
SessionStart ==
    /\ pc = "session_start"
    /\ \/ /\ statuses' = InitStatuses(checklist)
          /\ combined_history' = <<>>
          /\ page' = NoPage
          /\ pc' = "loop"
          /\ UNCHANGED <<exc, failPoint, result>>
       \/ /\ Leave([type |-> "Exception", text |-> "session"], "session")
          /\ UNCHANGED <<statuses, combined_history, page>>
    /\ UNCHANGED <<selfVars, checklist, idx, pages, logVars, killCalls,
                   stopCalls, failedIdx, runs>>
    /\ UNCHANGED toolVars

\* ---- for idx, subtask in enumerate(checklist, start=1), lines 131-193 ---------
\* builds the parameters and the progress digest and starts the executor under
\* asyncio.wait_for; when the checklist is exhausted the loop falls into finally
\* variant: the loop stops one entry early
HasNext_short(cl, i) == i + 1 < Len(cl)

HasNext(cl, i) == i < Len(cl)

NextIdx(i) == i + 1

LoopStep ==
    /\ pc = "loop"
    /\ IF HasNext(checklist, idx)
       THEN /\ idx' = NextIdx(idx)
            /\ agent' = Params(checklist, idx', page, statuses, initial_actions)
            /\ invocations' = Append(invocations, Invocation(idx', agent'))
            /\ running' = running \cup {idx'}
            /\ pc' = "exec"
       ELSE /\ pc' = "finally_kill"
            /\ UNCHANGED <<idx, agent, invocations, running>>
    /\ closing' = NoClosing
    /\ UNCHANGED <<selfVars, checklist, statuses, combined_history, page, pages,
                   exc, result, sub_histories, late, ended, killCalls,
                   stopCalls, handoffs, failPoint, failedIdx, runs>>
    /\ UNCHANGED toolVars

\* ---- the executor returns within the deadline: lines 192-196 and 208-213 ------
\* variant: the handoff is left out after the last entry
NextAfterDone_skip_last(cl, i) == IF i = Len(cl) THEN "loop" ELSE "handoff"

\* after the trace is extended control reaches line 216, whatever the entry
NextAfterDone(cl, i) == "handoff"

ExecCompletes ==
    /\ pc = "exec"
    /\ \E r \in Returns(idx), ps \in PageLists :
          /\ statuses' = mark_done(statuses, idx)
          /\ combined_history' = Extend(combined_history, GetHistory(SubDump(r)))
          /\ sub_histories' = Append(sub_histories, r.history)
          /\ pages' = ps
    /\ running' = running \ {idx}
    /\ ended' = "returned"
    /\ pc' = NextAfterDone(checklist, idx)
    /\ UNCHANGED <<selfVars, checklist, page, idx, exc, result, agent,
                   invocations, closing, late, killCalls, stopCalls, handoffs,
                   failPoint, failedIdx, runs>>
    /\ UNCHANGED toolVars

\* ---- page = await _keep_last_page(session.browser_context), line 216 ----------
\* a p.close() that raises has either met a tab that vanished meanwhile or
\* has left the tab open (failing); the error is swallowed either way
Handoff ==
    /\ pc = "handoff"
    /\ \E raised \in SUBSET Closable(pages) : \E failing \in SUBSET raised :
          LET r == KeepLastPage(pages, failing) IN
          /\ page' = r.last
          /\ pages' = r.pages
          /\ closing' = [attempted |-> Closable(pages), failed |-> raised]
    /\ handoffs' = handoffs + 1
    /\ pc' = "loop"
    /\ UNCHANGED <<selfVars, checklist, statuses, combined_history, idx, exc,
                   result, agent, invocations, sub_histories, running, late,
                   ended, killCalls, stopCalls, failPoint, failedIdx, runs>>
    /\ UNCHANGED toolVars

\* ---- except asyncio.TimeoutError / except Exception, lines 197-205 ------------
\* the message recorded for an exception of the given type and text
ErrorMessage(e) == IF e.type = "TimeoutError" THEN TimedOutMsg ELSE e.text

\* variant: the handler swallows the error and the loop goes on
AfterFailure_continue == "loop"

\* where control goes after the handler re-raises
AfterFailure == "finally_kill"

Fail(e) ==
    /\ statuses' = mark_error(statuses, idx, ErrorMessage(e))
    /\ exc' = e
    /\ failPoint' = "subtask"
    /\ failedIdx' = idx
    /\ running' = running \ {idx}
    /\ late' = 0
    /\ pc' = AfterFailure
    /\ UNCHANGED <<selfVars, checklist, combined_history, page, idx, pages,
                   result, agent, invocations, sub_histories, closing,
                   killCalls, stopCalls, handoffs, runs>>
    /\ UNCHANGED toolVars

\* ---- asyncio.wait_for(agent.run(...), timeout=self.subtask_timeout), 192-195 --
\* the deadline timer resolves first: wait_for cancels the executor's task and
\* then awaits it until the task has really ended
DeadlineExpires ==
    /\ pc = "exec"
    /\ pc' = "cancelling"
    /\ late' = 0
    /\ UNCHANGED <<selfVars, localVars, pages, exc, result, agent, invocations,
                   sub_histories, running, closing, ended, killCalls,
                   stopCalls, handoffs, failPoint, failedIdx, runs>>
    /\ UNCHANGED toolVars

\* the cancelled executor has not ended yet: a tick passes with run() waiting
ExecutorLingers ==
    /\ pc = "cancelling"
    /\ late < MaxLate
    /\ late' = late + 1
    /\ UNCHANGED <<selfVars, localVars, pc, pages, exc, result, agent,
                   invocations, sub_histories, running, closing, ended, killCalls,
                   stopCalls, handoffs, failPoint, failedIdx, runs>>
    /\ UNCHANGED toolVars

\* the cancelled executor ends: wait_for raises TimeoutError into line 197
ExecTimesOut ==
    /\ pc = "cancelling"
    /\ ended' = "deadline"
    /\ Fail([type |-> "TimeoutError", text |-> ""])

\* the executor itself raises before the deadline
ExecRaises ==
    /\ pc = "exec"
    /\ ended' = "raised"
    /\ \E t \in {"TimeoutError", "Exception"}, x \in ErrTexts :
          Fail([type |-> t, text |-> x])

\* the task running run() is cancelled while it awaits the executor:
\* CancelledError is not an Exception, only the finally clause sees it
RunCancelled ==
    /\ pc = "exec"
    /\ exc' = [type |-> "CancelledError", text |-> ""]
    /\ failPoint' = "subtask"
    /\ running' = running \ {idx}
    /\ ended' = "cancelled"
    /\ pc' = "finally_kill"
    /\ UNCHANGED <<selfVars, localVars, pages, result, agent, invocations,
                   sub_histories, closing, late, killCalls, stopCalls, handoffs,
                   failedIdx, runs>>
    /\ UNCHANGED toolVars

\* ---- finally: try: await session.kill(), lines 218-220 ------------------------
\* tearing the session down takes its tabs with it; run() does not look at
\* the tabs again before the next executor has left its own
KillError == [type |-> "Exception", text |-> "kill"]
StopError == [type |-> "Exception", text |-> "stop"]

\* variant: the finally clause does not tear the session down
FinallyKill_skipped ==
    /\ pc = "finally_kill"
    /\ pc' = "finally_stop"
    /\ UNCHANGED <<selfVars, localVars, pages, exc, result, logVars, killCalls,
                   stopCalls, failPoint, failedIdx, runs>>
    /\ UNCHANGED toolVars

FinallyKill ==
    /\ pc = "finally_kill"
    /\ killCalls' = killCalls + 1
    /\ pages' = <<>>
    /\ \E raises \in BOOLEAN :
          exc' = IF raises THEN KillError ELSE exc
    /\ pc' = "finally_stop"
    /\ UNCHANGED <<selfVars, localVars, result, logVars, stopCalls,
                   failPoint, failedIdx, runs>>
    /\ UNCHANGED toolVars

\* ---- inner finally: if self.playwright: await self.playwright.stop(), 221-223 -
\* variant: an error of session.kill() leaves run() at once, the runtime is
\* not stopped
FinallyStop_unless_kill_failed ==
    /\ pc = "finally_stop"
    /\ IF playwright # 0 /\ exc # KillError
       THEN /\ stopCalls' = stopCalls + 1
            /\ live' = live \ {playwright}
            /\ \E raises \in BOOLEAN :
                  exc' = IF raises THEN StopError ELSE exc
       ELSE UNCHANGED <<stopCalls, live, exc>>
    /\ IF exc' # NoExc
       THEN /\ pc' = "raised"
            /\ failPoint' = IF failPoint = "none" THEN "cleanup" ELSE failPoint
       ELSE /\ pc' = "post_kill"
            /\ UNCHANGED failPoint
    /\ UNCHANGED <<playwright, context, initial_actions, started, localVars,
                   pages, result, logVars, killCalls, failedIdx, runs>>
    /\ UNCHANGED toolVars

FinallyStop ==
    /\ pc = "finally_stop"
    /\ IF playwright # 0
       THEN /\ stopCalls' = stopCalls + 1
            /\ live' = live \ {playwright}
            /\ \E raises \in BOOLEAN :
                  exc' = IF raises THEN StopError ELSE exc
       ELSE UNCHANGED <<stopCalls, live, exc>>
    /\ IF exc' # NoExc
       THEN /\ pc' = "raised"
            /\ failPoint' = IF failPoint = "none" THEN "cleanup" ELSE failPoint
       ELSE /\ pc' = "post_kill"
            /\ UNCHANGED failPoint
    /\ UNCHANGED <<playwright, context, initial_actions, started, localVars,
                   pages, result, logVars, killCalls, failedIdx, runs>>
    /\ UNCHANGED toolVars

\* ---- after the try statement: await session.kill(), lines 225-226 -------------
PostKill ==
    /\ pc = "post_kill"
    /\ killCalls' = killCalls + 1
    /\ \E raises \in BOOLEAN :
          IF raises
          THEN Leave(KillError, "cleanup")
          ELSE /\ pc' = "post_stop"
               /\ UNCHANGED <<exc, failPoint, result>>
    /\ UNCHANGED <<selfVars, localVars, pages, logVars, stopCalls, failedIdx,
                   runs>>
    /\ UNCHANGED toolVars

\* ---- if self.playwright: await self.playwright.stop(); return, lines 227-232 --
PostStop ==
    /\ pc = "post_stop"
    /\ \E raises \in BOOLEAN :
          /\ IF playwright # 0
             THEN /\ stopCalls' = stopCalls + 1
                  /\ live' = live \ {playwright}
             ELSE /\ raises = FALSE
                  /\ UNCHANGED <<stopCalls, live>>
          /\ IF raises
             THEN Leave(StopError, "cleanup")
             ELSE /\ pc' = "returned"
                  /\ result' = [returned |-> TRUE,
                                history |-> combined_history,
                                subtask_history |-> statuses]
                  /\ UNCHANGED <<exc, failPoint>>
    /\ UNCHANGED <<playwright, context, initial_actions, started, localVars,
                   pages, logVars, killCalls, failedIdx, runs>>
    /\ UNCHANGED toolVars

Next ==
    \/ StartRun
    \/ InitBrowser
    \/ Plan
    \/ SessionStart
    \/ LoopStep
    \/ ExecCompletes
    \/ Handoff
    \/ DeadlineExpires
    \/ ExecutorLingers
    \/ ExecTimesOut
    \/ ExecRaises
    \/ RunCancelled
    \/ FinallyKill
    \/ FinallyStop
    \/ PostKill
    \/ PostStop

Spec == Init /\ [][Next]_vars

\* ---- _keep_last_page on its own ---------------------------------------------
\* the function is handed a context holding any handles, again and again
HandoffInit ==
    /\ Constructed
    /\ pc = "handoff"
    /\ pages \in PageListsUpTo(MaxHandles)
    /\ DriverIdle
    /\ EngineIdle

\* between two calls the tabs of the context change at will
TabsChange ==
    /\ pc = "loop"
    /\ handoffs < MaxHandoffs
    /\ pages' \in PageListsUpTo(MaxHandles)
    /\ closing' = NoClosing
    /\ pc' = "handoff"
    /\ UNCHANGED <<selfVars, localVars, exc, result, agent, invocations,
                   sub_histories, running, late, ended, killCalls, stopCalls,
                   handoffs, failPoint, failedIdx, runs>>
    /\ UNCHANGED toolVars

HandoffNext ==
    \/ Handoff
    \/ TabsChange

SpecHandoff == HandoffInit /\ [][HandoffNext]_vars

\* ---- run_online_mw2.py: main() and run_task -----------------------------------
\* every task gets an agent of its own, with the initial go_to_url action
DriverInit ==
    /\ AgentIdle
    /\ initial_actions
    /\ DriverIdle
    /\ EngineIdle

\* main() is started on the output directory, lines 184-220
MainStart ==
    /\ mpc \in {"idle", "exited", "crashed"}
    /\ mains < MaxMains
    /\ mains' = mains + 1
    /\ \E sid \in StartIds, h \in BOOLEAN :
          /\ start_id' = sid
          /\ hierarchical' = h
          /\ cursor' = StartIndex(rows, sid)
    /\ ran' = <<>>
    /\ history' = NoHistory
    /\ error' = Unbound
    /\ mpc' = "scan"
    /\ UNCHANGED <<dirs, agentVars, engineVars>>

\* the for loop of line 222 is exhausted
MainDone ==
    /\ mpc = "scan"
    /\ cursor > Len(rows)
    /\ mpc' = "exited"
    /\ UNCHANGED <<hierarchical, start_id, cursor, dirs, ran, mains, history,
                   error, agentVars, engineVars>>

\* lines 223-226: the output of the row exists already
SkipTask ==
    /\ mpc = "scan"
    /\ cursor <= Len(rows)
    /\ NonEmpty(dirs[rows[cursor]])
    /\ cursor' = cursor + 1
    /\ UNCHANGED <<mpc, hierarchical, start_id, dirs, ran, mains, history,
                   error, agentVars, engineVars>>

\* line 227 and run_task up to the try: the task directory is made, 116-118
StartTask ==
    /\ mpc = "scan"
    /\ cursor <= Len(rows)
    /\ ~NonEmpty(dirs[rows[cursor]])
    /\ dirs' = [dirs EXCEPT ![rows[cursor]].exists = TRUE]
    /\ ran' = Append(ran, cursor)
    /\ history' = NoHistory
    /\ error' = Unbound
    /\ mpc' = "agent_run"
    /\ UNCHANGED <<hierarchical, start_id, cursor, mains, agentVars, engineVars>>

\* history = await agent.run(...), lines 162-165
AgentReturns ==
    /\ mpc = "agent_run"
    /\ history' \in AgentResults(hierarchical)
    /\ mpc' = "save"
    /\ UNCHANGED <<hierarchical, start_id, cursor, dirs, ran, mains, error,
                   agentVars, engineVars>>

\* except Exception as e, lines 166-168
AgentRaises ==
    /\ mpc = "agent_run"
    /\ history' = None
    /\ error' \in ErrTexts
    /\ mpc' = "save"
    /\ UNCHANGED <<hierarchical, start_id, cursor, dirs, ran, mains,
                   agentVars, engineVars>>

\* the await of agent.run raises CancelledError, which is no Exception: it
\* leaves run_task and, through line 227, main()
AgentCancelled ==
    /\ mpc = "agent_run"
    /\ mpc' = "crashed"
    /\ UNCHANGED <<hierarchical, start_id, cursor, dirs, ran, mains, history,
                   error, agentVars, engineVars>>

\* if history: await save_mind2web_trace(...), lines 171-172
SaveTrace ==
    /\ mpc = "save"
    /\ HistoryTruthy(history)
    /\ dirs' = [dirs EXCEPT ![rows[cursor]] =
                    [exists |-> TRUE,
                     files |-> @.files \cup {"trajectory", "result.json"},
                     result |-> TraceRecord(history, hierarchical)]]
    /\ cursor' = cursor + 1
    /\ mpc' = "scan"
    /\ UNCHANGED <<hierarchical, start_id, ran, mains, history, error,
                   agentVars, engineVars>>

\* else: lines 173-182.  open(..., 'w') makes the file before the record is
\* built; building it reads error, which is unbound when no handler ran
SaveError ==
    /\ mpc = "save"
    /\ ~HistoryTruthy(history)
    /\ IF error = Unbound
       THEN /\ dirs' = [dirs EXCEPT ![rows[cursor]] =
                           [exists |-> TRUE,
                            files |-> @.files \cup {"result.json"},
                            result |-> EmptyFile]]
            /\ mpc' = "crashed"
            /\ UNCHANGED cursor
       ELSE /\ dirs' = [dirs EXCEPT ![rows[cursor]] =
                           [exists |-> TRUE,
                            files |-> @.files \cup {"result.json"},
                            result |-> ErrorRecord(error)]]
            /\ cursor' = cursor + 1
            /\ mpc' = "scan"
    /\ UNCHANGED <<hierarchical, start_id, ran, mains, history, error,
                   agentVars, engineVars>>

DriverNext ==
    \/ MainStart
    \/ MainDone
    \/ SkipTask
    \/ StartTask
    \/ AgentReturns
    \/ AgentRaises
    \/ AgentCancelled
    \/ SaveTrace
    \/ SaveError

SpecDriver == DriverInit /\ [][DriverNext]_vars

\* ---- utils.py: OpenaiEngine.generate under backoff.on_exception ---------------
EngineInit ==
    /\ AgentIdle
    /\ initial_actions
    /\ DriverIdle
    /\ EngineIdle

\* the decorated generate() is called: the first try, lines 110-119
GenerateCalled ==
    /\ epc \in {"idle", "returned", "raised"}
    /\ epc' = "request"
    /\ tries' = 1
    /\ apiLog' = <<>>
    /\ delay' = 0
    /\ UNCHANGED <<agentVars, driverVars>>

\* the request succeeds, lines 124-134
ApiSucceeds ==
    /\ epc = "request"
    /\ Len(apiLog) < MaxCalls
    /\ apiLog' = Append(apiLog, [kind |-> "ok", retry_after |-> NoneStr])
    /\ epc' = "returned"
    /\ UNCHANGED <<tries, delay, agentVars, driverVars>>

\* except RateLimitError, lines 135-149: sleep, then the while True loop makes
\* the request again inside the same call of generate()
ApiRateLimited ==
    /\ epc = "request"
    /\ Len(apiLog) < MaxCalls
    /\ \E e \in RateLimits :
          /\ apiLog' = Append(apiLog, e)
          /\ delay' = RetryDelay(e)
    /\ epc' = "request"
    /\ UNCHANGED <<tries, agentVars, driverVars>>

\* backoff gives up when the call that failed was number max_tries
GiveUp(n) == n >= max_tries

\* an APIError or APIConnectionError leaves generate(); the decorator of
\* lines 104-109 calls generate() again unless it gives up
ApiFails ==
    /\ epc = "request"
    /\ Len(apiLog) < MaxCalls
    /\ \E k \in ApiErrors :
          apiLog' = Append(apiLog, [kind |-> k, retry_after |-> NoneStr])
    /\ IF GiveUp(tries)
       THEN epc' = "raised" /\ UNCHANGED tries
       ELSE epc' = "request" /\ tries' = tries + 1
    /\ UNCHANGED <<delay, agentVars, driverVars>>

EngineNext ==
    \/ GenerateCalled
    \/ ApiSucceeds
    \/ ApiRateLimited
    \/ ApiFails

SpecEngine == EngineInit /\ [][EngineNext]_vars

TypeOK ==
    /\ pc \in {"idle", "init_browser", "plan", "session_start", "loop", "exec",
               "cancelling", "handoff", "finally_kill", "finally_stop", "post_kill",
               "post_stop", "returned", "raised"}
    /\ idx \in 0..Len(checklist)
    /\ Len(statuses) \in {0, Len(checklist)}

\* ---- vocabulary of the properties ------------------------------------------
RECURSIVE Concat(_)
Concat(hs) == IF hs = <<>> THEN <<>> ELSE Head(hs) \o Concat(Tail(hs))

IsDone(st) == st.done /\ st.error = NoneStr
IsFailed(st) == ~st.done /\ st.error # NoneStr
IsPending(st) == ~st.done /\ st.error = NoneStr
IsTerminal(st) == IsDone(st) \/ IsFailed(st)

\* run() has created the statuses and has not yet left
InRun == pc \in {"loop", "exec", "cancelling", "handoff", "finally_kill", "finally_stop",
                 "post_kill", "post_stop"}

\* the loop ran to the end of the checklist without a subtask failing
SuccessPath ==
    /\ pc \in {"finally_kill", "finally_stop", "post_kill", "post_stop",
                "returned", "raised"}
    /\ failPoint \in {"none", "cleanup"}

\* C1: when a failure injected while a subtask executes (deadline, executor
\* error, cancellation) leaves run(), session.kill has been invoked exactly once
C1_KillOnceOnSubtaskFailure ==
    (pc = "raised" /\ failPoint = "subtask") => killCalls = 1

C1_Witness ==
    /\ pc = "raised"
    /\ failPoint = "subtask"
    /\ failedIdx = 0
    /\ exc.type = "CancelledError"
    /\ idx = 2
    /\ killCalls = 1

\* C2: when run() returns after every subtask completed, session.kill and
\* playwright.stop have each been invoked exactly once in that run
C2_CleanupOnceOnSuccess ==
    pc = "returned" => (killCalls = 1 /\ stopCalls = 1)

\* C3: when run() aborts because planning raised or the session failed to
\* start, the runtime acquired by _init_browser has been stopped
C3_RuntimeReleasedOnEarlyAbort ==
    (pc = "raised" /\ failPoint \in {"plan", "session"}) => playwright \notin live

\* C4: executors run one at a time and in order, entry k is invoked only when
\* every earlier entry is Done, and after a timeout or an executor error no
\* further executor is invoked
C4_FailFastSequential ==
    /\ Cardinality(running) <= 1
    /\ running \subseteq {Len(invocations)}
    /\ \A k \in 1..Len(invocations) :
          /\ invocations[k].idx = k
          /\ \A j \in 1..(k - 1) : IsDone(statuses[j])
    /\ failedIdx # 0 => (Len(invocations) = failedIdx /\ running = {})

C4_Witness ==
    /\ pc = "raised"
    /\ Len(checklist) = 3
    /\ failedIdx = 2
    /\ Len(invocations) = 2

\* C5 as stated: at any point during a run exactly one status is Running,
\* every status before it is terminal and every status after it is Pending
C5_ExactlyOneRunning ==
    InRun =>
        \E i \in 1..Len(statuses) :
            /\ running = {i}
            /\ \A j \in 1..(i - 1) : IsTerminal(statuses[j])
            /\ \A j \in (i + 1)..Len(statuses) : IsPending(statuses[j])

\* C5 amended: at most one subtask executes at a time, exactly one while the
\* executor is awaited and none otherwise; the executing entry still reads
\* Pending (no Running state is recorded), every status before the current
\* index is terminal and every status after it is Pending
C5_AtMostOneRunning ==
    InRun =>
        /\ Cardinality(running) <= 1
        /\ running = (IF pc \in {"exec", "cancelling"} THEN {idx} ELSE {})
        /\ \A i \in running : IsPending(statuses[i])
        /\ \A j \in 1..Len(statuses) :
              /\ j < idx => IsTerminal(statuses[j])
              /\ j > idx => IsPending(statuses[j])

C5_Witness ==
    /\ pc = "exec"
    /\ Len(statuses) = 3
    /\ running = {2}
    /\ IsDone(statuses[1])
    /\ IsPending(statuses[2])
    /\ IsPending(statuses[3])

\* C6: when the loop has run through a checklist of length N without a subtask
\* failing, the executor has been invoked exactly N times and the k-th call got
\* the k-th subtask description
C6_InvokedOncePerEntryInOrder ==
    SuccessPath =>
        /\ Len(invocations) = Len(checklist)
        /\ \A k \in 1..Len(invocations) :
              /\ invocations[k].idx = k
              /\ invocations[k].task = checklist[k]

C6_Witness ==
    /\ pc = "returned"
    /\ checklist = <<Name(1), Name(2), Name(3)>>
    /\ Len(invocations) = 3

\* C7: the history run() returns is the concatenation, in subtask order, of the
\* step histories the subtasks returned
C7_TraceIsConcatenation ==
    pc = "returned" =>
        /\ Len(sub_histories) = Len(checklist)
        /\ result.history = Concat(sub_histories)

C7_Witness ==
    /\ pc = "returned"
    /\ Len(checklist) = 2
    /\ result.history = <<Step(1, 1), Step(1, 2), Step(2, 1), Step(2, 2)>>

\* C8: once subtask k has timed out or raised, every status before k is Done,
\* status k is Failed with the failure message, every status after k is
\* Pending, and the accumulated trace holds the steps of subtasks 1..k-1 only
C8_AbortState ==
    failedIdx # 0 =>
        /\ \A j \in 1..(failedIdx - 1) : IsDone(statuses[j])
        /\ IsFailed(statuses[failedIdx])
        /\ statuses[failedIdx].error \in ErrTexts \cup {TimedOutMsg}
        /\ (pc = "finally_kill" /\ exc.type = "Exception")
              => statuses[failedIdx].error = exc.text
        /\ (pc = "finally_kill" /\ exc.type = "TimeoutError")
              => statuses[failedIdx].error = TimedOutMsg
        /\ \A j \in (failedIdx + 1)..Len(statuses) : IsPending(statuses[j])
        /\ Len(sub_histories) = failedIdx - 1
        /\ combined_history = Concat(sub_histories)

C8_Witness ==
    /\ pc = "raised"
    /\ Len(checklist) = 3
    /\ failedIdx = 2
    /\ statuses[2].error = TimedOutMsg
    /\ combined_history = <<Step(1, 1), Step(1, 2)>>

\* C9: when run() aborts because a subtask failed, the caller holds the partial
\* trace and the statuses accumulated up to the failure
C9_CallerGetsPartialTrace ==
    (pc = "raised" /\ failedIdx # 0) =>
        /\ result.history = combined_history
        /\ result.subtask_history = statuses

\* C10: when run() returns normally the returned status list has one entry per
\* checklist item, in checklist order, each Done with no error
C10_ReturnedStatusesAllDone ==
    pc = "returned" =>
        /\ result.returned
        /\ Len(result.subtask_history) = Len(checklist)
        /\ \A i \in 1..Len(checklist) :
              /\ result.subtask_history[i].name = checklist[i]
              /\ IsDone(result.subtask_history[i])

C10_Witness ==
    /\ pc = "returned"
    /\ Len(checklist) = 3
    /\ checklist[1] # checklist[2]
    /\ Len(result.subtask_history) = 3
\* the errors a failing subtask raises into the handlers of lines 197-205
SubtaskErrors == [type : {"TimeoutError", "Exception"}, text : ErrTexts]

\* the handler has just re-raised and no cleanup has run yet
JustFailed == pc = "finally_kill" /\ killCalls = 0 /\ failedIdx # 0

\* C11: when the executor has not returned within the deadline, the status of
\* that subtask is Failed with "timed out after <D>s" and the error the caller
\* of run() receives is the timeout error
C11_DeadlineFailsAndPropagates ==
    ended = "deadline" =>
        /\ failedIdx = idx
        /\ IsFailed(statuses[idx])
        /\ statuses[idx].error = TimedOutMsg
        /\ pc # "returned"
        /\ pc = "raised" => exc.type = "TimeoutError"

\* a margin that a slow enough executor outlasts
Margin == MaxLate - 1

\* C12: once the deadline timer has resolved, run() is never found still
\* waiting for the executor more than a fixed margin later
C12_TimedOutWithinMargin ==
    pc = "cancelling" => late <= Margin

\* C13: when the executor raises, the status of that subtask is Failed with
\* that error's text, is not Done, and the caller of run() receives that error
C13_RaisedFailsWithTextAndPropagates ==
    ended = "raised" =>
        /\ failedIdx = idx
        /\ ~statuses[idx].done
        /\ JustFailed => statuses[idx].error = exc.text
        /\ pc # "returned"
        /\ pc = "raised" =>
              /\ exc \in SubtaskErrors
              /\ exc.text = statuses[idx].error
\* ids of the tabs of ps that are open
OpenIds(ps) == {ps[k].id : k \in {j \in 1..Len(ps) : ~ps[j].closed}}

\* the step is one call of _keep_last_page
HandoffStep == pc = "handoff" /\ handoffs' = handoffs + 1

InvokeStep == Len(invocations') = Len(invocations) + 1

\* C15: the handoff of subtask i runs after its executor has returned and
\* before the executor of subtask i+1 is started, the page given to an
\* executor is the page the latest handoff returned, and the first executor
\* gets no page
C15_HandoffBetweenSubtasks ==
    [][/\ InvokeStep =>
            /\ agent'.page = page
            /\ handoffs = Len(invocations)
            /\ Len(sub_histories) = Len(invocations)
            /\ Len(invocations) = 0 => agent'.page = NoPage
       /\ HandoffStep =>
            /\ ended = "returned"
            /\ running = {}
            /\ Len(sub_histories) = handoffs + 1
            /\ Len(invocations) = handoffs + 1
       /\ page' # page => (HandoffStep \/ page' = NoPage)]_vars

C15_Witness ==
    /\ pc = "exec"
    /\ idx = 2
    /\ handoffs = 1
    /\ page = 2
    /\ agent.page = 2

DoneCount == Cardinality({j \in 1..Len(statuses) : statuses[j].done})

\* the loop has been left, normally or by an error
LoopLeft == pc \in {"finally_kill", "finally_stop", "post_kill", "post_stop",
                    "returned", "raised"}

\* C16: a handoff follows every subtask that succeeded, the last one included,
\* and no subtask that failed: once the loop is left the number of handoffs is
\* the number of statuses marked Done
C16_HandoffPerDoneSubtask ==
    /\ LoopLeft => handoffs = DoneCount
    /\ InRun => (IF pc = "handoff" THEN DoneCount = handoffs + 1
                                   ELSE DoneCount = handoffs)
    /\ failedIdx # 0 => handoffs = failedIdx - 1

C16_Witness ==
    /\ pc = "returned"
    /\ Len(checklist) = 3
    /\ DoneCount = 3
    /\ handoffs = 3

\* C17: when the planner returns an empty checklist run() fails with a
\* planning error instead of returning a normal, empty result
C17_EmptyPlanFails ==
    pc = "returned" => checklist # <<>>

\* C18: in the digest built for the subtask at index k every earlier entry is
\* listed as done or as failed, the entry at k is the only one annotated
\* "coming up next", and later entries are left out or marked pending
C18_OnlyCurrentComingUpNext ==
    \A k \in 1..Len(invocations) :
        LET p == invocations[k].progress IN
        /\ \A j \in 1..(k - 1) :
              \E n \in 1..Len(p) : p[n].step = j /\ p[n].mark \in {"done", "failed"}
        /\ \E n \in 1..Len(p) : p[n].step = k /\ p[n].mark = "coming up next"
        /\ \A n \in 1..Len(p) : p[n].mark = "coming up next" => p[n].step = k

\* C19: when a run aborted by a failed subtask leaves run(), the error the
\* caller receives is the error of that subtask, the one its status records
C19_TriggeringErrorSurfaces ==
    (pc = "raised" /\ failedIdx # 0) =>
        /\ exc \in SubtaskErrors
        /\ ErrorMessage(exc) = statuses[failedIdx].error

\* C20: during a run a step changes no status but the one of the current
\* subtask, leaves every name as it is, keeps the number of statuses, and
\* leaves the checklist as it is
C20_OnlyCurrentStatusChanges ==
    [][InRun =>
        /\ checklist' = checklist
        /\ Len(statuses') = Len(statuses)
        /\ \A j \in 1..Len(statuses) :
              /\ statuses'[j].name = statuses[j].name
              /\ j # idx => statuses'[j] = statuses[j]]_vars

C20_Witness ==
    /\ pc = "loop"
    /\ idx = 2
    /\ handoffs = 2
    /\ Len(statuses) = 3
    /\ IsDone(statuses[1])
    /\ IsDone(statuses[2])
    /\ IsPending(statuses[3])

\* C21: a p.close() that raises is swallowed by _keep_last_page: the call
\* returns normally, every older open tab whose close did not raise is closed
\* whatever happened to the others, and the page returned is the newest handle
\* that was not closed (none when there is none)
C21_CloseFailuresSwallowed ==
    [][HandoffStep =>
        LET open == OpenPages(pages) IN
        /\ pc' = "loop"
        /\ exc' = exc
        /\ closing'.attempted = Closable(pages)
        /\ \A id \in Closable(pages) \ closing'.failed : id \notin OpenIds(pages')
        /\ page' = IF open = <<>> THEN NoPage ELSE open[Len(open)].id]_vars

C21_Witness ==
    /\ pc = "loop"
    /\ handoffs = 1
    /\ closing.attempted = {1, 2}
    /\ closing.failed = {1}
    /\ OpenIds(pages) = {1, 3}
    /\ page = 3

\* run() has been left, by return or by an error
Exited == pc \in {"returned", "raised"}

\* C22: an executor call that has ended, by return, deadline, error of its own
\* or cancellation of the run, has left its status Done or Failed, and no
\* status of an invoked subtask is Pending when run() has exited
C22_EndedCallIsClassified ==
    /\ (ended # "none" /\ pc \notin {"exec", "cancelling"})
          => IsTerminal(statuses[idx])
    /\ Exited => \A k \in 1..Len(invocations) : IsTerminal(statuses[k])

\* C23: the status of a failed subtask reads "timed out after <D>s" exactly
\* when the deadline resolved before the executor did, and an error raised by
\* the executor itself, a timeout-typed one included, is recorded with its text
C23_TimedOutIffDeadline ==
    failedIdx # 0 =>
        /\ statuses[failedIdx].error = TimedOutMsg <=> ended = "deadline"
        /\ (ended = "raised" /\ JustFailed) => statuses[failedIdx].error = exc.text

\* no status is done and carries an error
NeverDoneWithError(sts) ==
    \A j \in 1..Len(sts) : ~(sts[j].done /\ sts[j].error # NoneStr)

\* C24: no status ever has done = True together with an error, and a status
\* that is Done or Failed stays as it is for the rest of the run
C24_TerminalStatusIsFinal ==
    [][/\ NeverDoneWithError(statuses)
       /\ NeverDoneWithError(statuses')
       /\ runs' = runs =>
            \A j \in 1..Len(statuses) :
                (statuses[j].done \/ statuses[j].error # NoneStr)
                    => /\ Len(statuses') = Len(statuses)
                       /\ statuses'[j] = statuses[j]]_vars

C24_Witness ==
    /\ pc = "raised"
    /\ runs = 1
    /\ Len(statuses) = 3
    /\ IsDone(statuses[1])
    /\ IsFailed(statuses[2])
    /\ statuses[2].error = "boom"
    /\ IsPending(statuses[3])

\* C25: whenever an executor runs, the browser context it is given lives in a
\* runtime that has been started and not stopped
C25_ExecutesOnLiveRuntime ==
    pc \in {"exec", "cancelling"} => (context # 0 /\ context \in live)

\* the loop of run() was entered in the run that is ending or has ended
LoopWasEntered ==
    /\ pc \in {"post_kill", "post_stop", "returned", "raised"}
    /\ failPoint \notin {"init", "plan", "session"}

\* C26: on every way out of run() once the loop was entered, playwright.stop
\* has been invoked, also when session.kill raised
C26_RuntimeStopAlwaysInvoked ==
    LoopWasEntered => stopCalls >= 1

C26_Witness ==
    /\ pc = "raised"
    /\ failPoint = "subtask"
    /\ failedIdx = 1
    /\ exc = KillError
    /\ killCalls = 1
    /\ stopCalls = 1

\* C27: the executor of the first subtask gets the initial actions when some
\* are configured, and no other executor gets them
C27_InitialActionsFirstOnly ==
    /\ \A k \in 1..Len(invocations) :
          invocations[k].initial_actions <=> (k = 1 /\ initial_actions)
    /\ Cardinality({k \in 1..Len(invocations) : invocations[k].initial_actions}) <= 1

C27_Witness ==
    /\ initial_actions
    /\ Len(invocations) = 3
    /\ invocations[1].initial_actions
    /\ ~invocations[2].initial_actions
    /\ ~invocations[3].initial_actions

\* the directory of task t holds something
HasOutput(t) == dirs[t].files # {}

\* the run_task call on the k-th row of ran has ended
CallEnded(k) == k < Len(ran) \/ mpc \in {"scan", "exited"}

\* C28: run_task lets no error out, and once it has ended the task directory
\* holds a written result.json: the converted trace when agent.run returned a
\* history, else the record with "Exception: <error text>" and an empty
\* action_history
C28_RunTaskAlwaysWritesResult ==
    /\ mpc # "crashed"
    /\ \A k \in 1..Len(ran) :
          CallEnded(k) =>
              LET d == dirs[rows[ran[k]]] IN
              /\ "result.json" \in d.files
              /\ d.result.kind \in {"trace", "error"}
              /\ d.result.kind = "error" =>
                    /\ d.result.action_history = 0
                    /\ \E x \in ErrTexts :
                          d.result.final_result_response = "Exception: " \o x
    /\ (mpc = "scan" /\ ran # <<>>) =>
          dirs[rows[ran[Len(ran)]]].result =
              IF history.kind \in {"dict", "AgentHistoryList"}
              THEN TraceRecord(history, hierarchical)
              ELSE ErrorRecord(error)

\* a step by which main() calls run_task
StartTaskStep == Len(ran') = Len(ran) + 1

\* the row --start_id names, the first row when it names none
StartRow ==
    IF \E i \in 1..Len(rows) : rows[i] = start_id
    THEN CHOOSE i \in 1..Len(rows) : rows[i] = start_id
    ELSE 1

\* C29: main() calls run_task on one row at a time, in dataset order, on no
\* row before the one --start_id names, on no row whose directory holds
\* output already, and on every row since the start that holds none; a row
\* with output is passed over with nothing changed
C29_ResumableInOrder ==
    [][/\ StartTaskStep =>
            LET i == ran'[Len(ran')] IN
            /\ mpc = "scan"
            /\ i = cursor
            /\ i >= StartRow
            /\ ~HasOutput(rows[i])
            /\ \A k \in 1..Len(ran) : ran[k] < i
            /\ \A j \in StartRow..(i - 1) : HasOutput(rows[j])
       /\ (mpc = "scan" /\ cursor <= Len(rows) /\ HasOutput(rows[cursor])) =>
            /\ cursor' = cursor + 1
            /\ ran' = ran
            /\ dirs' = dirs]_vars

C29_Witness ==
    /\ mains = 2
    /\ start_id = Tid(2)
    /\ mpc = "agent_run"
    /\ ran = <<3>>
    /\ ~HasOutput(Tid(1))
    /\ HasOutput(Tid(2))

\* the three errors the decorator retries on
RetriedErrors == ApiErrors \cup {"RateLimitError"}

\* C30: while every request fails with APIError, RateLimitError or
\* APIConnectionError, one generate() makes at most max_tries requests
C30_GivesUpAfterMaxTries ==
    (\A k \in 1..Len(apiLog) : apiLog[k].kind \in RetriedErrors)
        => Len(apiLog) <= max_tries
====
